---- MODULE Spec2Model ----
(***************************************************************************)
(* A model of logging.js (logging-utils): configureLogging installs        *)
(* levelled logging on a target object, backed by an underlying logger.    *)
(*                                                                         *)
(* JavaScript values are tagged records [t |-> tag, v |-> payload]:        *)
(*   undefined, null, boolean, number, string (payload: a sequence of      *)
(*   one-character strings), function (payload: what the closure is),      *)
(*   ref (an object with identity: console or a logger-like object, the    *)
(*   payload names it) and plain (an object literal, the payload is its    *)
(*   property map).                                                        *)
(***************************************************************************)
EXTENDS Integers, Sequences, FiniteSets, TLC

VARIABLES target,          \* the property map of the target object
          env,             \* process.env: variable name -> string value or undefined
          defaultOptions,  \* content of the local default-options.json file
          installed,       \* a configureLogging call has installed logging on the target
          last             \* the last operation: its inputs, its outcome, the calls it made

vars == <<target, env, defaultOptions, installed, last>>

-----------------------------------------------------------------------------
(* JavaScript values *)

Undefined == [t |-> "undefined", v |-> <<>>]
Null == [t |-> "null", v |-> <<>>]
Bool(b) == [t |-> "boolean", v |-> b]
Num(n) == [t |-> "number", v |-> n]
Str(s) == [t |-> "string", v |-> s]
Ref(id) == [t |-> "ref", v |-> id]
Plain(props) == [t |-> "plain", v |-> props]
Fn(f) == [t |-> "function", v |-> f]

\* typeof
Typeof(x) ==
  CASE x.t \in {"ref", "plain", "null"} -> "object"
    [] OTHER -> x.t

\* ToBoolean
Truthy(x) ==
  CASE x.t \in {"undefined", "null"} -> FALSE
    [] x.t = "boolean" -> x.v
    [] x.t = "number" -> x.v # 0
    [] x.t = "string" -> x.v # <<>>
    [] OTHER -> TRUE

\* obj[name] on a property map: undefined when the property is absent
Get(props, name) == IF name \in DOMAIN props THEN props[name] ELSE Undefined

\* mutant: the assignment leaves an object with that property alone
Put_OnFreshObject(props, name, value) == [k \in {name} |-> value]

\* obj[name] = value
Put(props, name, value) ==
  [k \in (DOMAIN props) \cup {name} |-> IF k = name THEN value ELSE props[k]]

\* delete obj[name]
Delete(props, name) == [k \in (DOMAIN props) \ {name} |-> props[k]]

-----------------------------------------------------------------------------
(* Strings: sequences of one-character strings *)

LowerCase == <<"a","b","c","d","e","f","g","h","i","j","k","l","m","n","o","p","q","r","s","t","u","v","w","x","y","z">>
UpperCase == <<"A","B","C","D","E","F","G","H","I","J","K","L","M","N","O","P","Q","R","S","T","U","V","W","X","Y","Z">>

IsWhiteSpace(c) == c \in {" ", "\t", "\n"}

UpperOf == [c \in {LowerCase[i] : i \in 1..Len(LowerCase)} |->
              UpperCase[CHOOSE i \in 1..Len(LowerCase) : LowerCase[i] = c]]

ToUpperChar(c) == IF c \in DOMAIN UpperOf THEN UpperOf[c] ELSE c

\* String.prototype.toUpperCase
ToUpperCase(s) == [i \in 1..Len(s) |-> ToUpperChar(s[i])]

RECURSIVE TrimStart(_)
TrimStart(s) == IF s # <<>> /\ IsWhiteSpace(Head(s)) THEN TrimStart(Tail(s)) ELSE s

RECURSIVE TrimEnd(_)
TrimEnd(s) ==
  IF s # <<>> /\ IsWhiteSpace(s[Len(s)]) THEN TrimEnd(SubSeq(s, 1, Len(s) - 1)) ELSE s

\* String.prototype.trim
Trim(s) == TrimEnd(TrimStart(s))

\* String.prototype.startsWith
StartsWith(s, prefix) == Len(s) >= Len(prefix) /\ SubSeq(s, 1, Len(prefix)) = prefix

\* x.trim is defined: only strings have a trim method among the values modelled
HasTrim(x) == x.t = "string"

-----------------------------------------------------------------------------
(* core-functions helpers used by logging.js *)

\* booleans.isBoolean
isBoolean(x) == x.t = "boolean"

\* strings.isString
isString(x) == x.t = "string"

\* strings.isNotBlank: s && (!s.trim || s.trim()), as a truth value
isNotBlank(x) == Truthy(x) /\ (~HasTrim(x) \/ Trim(x.v) # <<>>)

\* strings.trim: trims strings, returns anything else as it is
trim(x) == IF isString(x) THEN Str(Trim(x.v)) ELSE x

\* copying.copy (shallow): a new object with the same properties
copy(props) == [k \in DOMAIN props |-> props[k]]

\* mutant: the properties of `from` replace those of `to`
merge_Replacing(from, to) ==
  [k \in (DOMAIN from) \cup (DOMAIN to) |->
     IF Get(from, k) # Undefined THEN from[k] ELSE Get(to, k)]

\* merging.merge(from, to): fills in the properties of `to` that are undefined
\* with those of `from`, never replacing a defined one
merge(from, to) ==
  [k \in (DOMAIN from) \cup (DOMAIN to) |->
     IF Get(to, k) # Undefined THEN to[k] ELSE Get(from, k)]

-----------------------------------------------------------------------------
(* Constants of logging.js *)

ERROR == <<"E","R","R","O","R">>
WARN == <<"W","A","R","N">>
INFO == <<"I","N","F","O">>
DEBUG == <<"D","E","B","U","G">>
TRACE == <<"T","R","A","C","E">>
LOG == <<"L","O","G">>

LogLevel == [ERROR |-> Str(ERROR), WARN |-> Str(WARN), INFO |-> Str(INFO),
             DEBUG |-> Str(DEBUG), TRACE |-> Str(TRACE)]

LOG_LEVEL == <<"L","O","G","_","L","E","V","E","L">>

defaults == [logLevel |-> LogLevel.INFO,
             useLevelPrefixes |-> Bool(TRUE),
             envLogLevelName |-> Str(LOG_LEVEL),
             useConsoleTrace |-> Bool(FALSE)]

\* mutant: a suppressed level still logs
noop_Logs == Fn([kind |-> "bound", logger |-> "console", fnName |-> "log"])

noop == Fn([kind |-> "noop"])

-----------------------------------------------------------------------------
(* The objects with identity: console and the logger-like objects a caller   *)
(* may supply, each with the names of its function-valued properties         *)

LoggerMethods == {"error", "warn", "info", "debug", "trace", "log"}

\* the minimum viable loggers with some of warn, info, debug and trace (named by
\* the initials of those they have)
IncompleteLoggers ==
  [Has_w |-> {"log", "error", "warn"},
   Has_i |-> {"log", "error", "info"},
   Has_d |-> {"log", "error", "debug"},
   Has_t |-> {"log", "error", "trace"},
   Has_wi |-> {"log", "error", "warn", "info"},
   Has_wd |-> {"log", "error", "warn", "debug"},
   Has_wt |-> {"log", "error", "warn", "trace"},
   Has_id |-> {"log", "error", "info", "debug"},
   Has_it |-> {"log", "error", "info", "trace"},
   Has_dt |-> {"log", "error", "debug", "trace"},
   Has_wid |-> {"log", "error", "warn", "info", "debug"},
   Has_wit |-> {"log", "error", "warn", "info", "trace"},
   Has_wdt |-> {"log", "error", "warn", "debug", "trace"},
   Has_idt |-> {"log", "error", "info", "debug", "trace"}]

CompleteLoggers ==
        [console   |-> LoggerMethods \cup {"trace"},
         AllOK     |-> LoggerMethods,
         Override  |-> LoggerMethods,
         MinViable |-> {"log", "error"},
         NoLog     |-> LoggerMethods \ {"log"},
         NoError   |-> LoggerMethods \ {"error"},
         OnlyLog   |-> {"log"},
         OnlyError |-> {"error", "warn"},
         NoMethods |-> {}]

Heap == CompleteLoggers @@ IncompleteLoggers

console == Ref("console")

\* typeof x[name] === 'function'
HasFunction(x, name) == x.t = "ref" /\ name \in Heap[x.v]


-----------------------------------------------------------------------------
(* Calls that reach console or a logger-like object *)

Call(logger, fnName, args) == [logger |-> logger, fn |-> fnName, args |-> args]

RECURSIVE Digits(_)
Digits(n) ==
  IF n < 10 THEN <<<<"0","1","2","3","4","5","6","7","8","9">>[n + 1]>>
  ELSE Digits(n \div 10) \o Digits(n % 10)

\* the string a template literal `${x}` produces
StringOf(x) ==
  CASE x.t = "string" -> x.v
    [] x.t = "undefined" -> <<"u","n","d","e","f","i","n","e","d">>
    [] x.t = "null" -> <<"n","u","l","l">>
    [] x.t = "boolean" -> IF x.v THEN <<"t","r","u","e">> ELSE <<"f","a","l","s","e">>
    [] x.t = "number" -> IF x.v < 0 THEN <<"-">> \o Digits(0 - x.v) ELSE Digits(x.v)
    [] x.t = "function" -> <<"f","u","n","c","t","i","o","n">>
    [] OTHER -> <<"[","o","b","j","e","c","t"," ","O","b","j","e","c","t","]">>

\* mutant: the prefix is inserted even when the first argument starts with it
PrefixedArgs_Always(logLevelPrefix, args) ==
  IF Len(args) > 0
  THEN [args EXCEPT ![1] = Str(logLevelPrefix \o <<" ">> \o StringOf(args[1]))]
  ELSE args

\* logWithPrefix: the arguments it passes on to the bound logging function
PrefixedArgs(logLevelPrefix, args) ==
  IF Len(args) > 0 /\ (~isString(args[1]) \/ ~StartsWith(args[1].v, logLevelPrefix))
  THEN [args EXCEPT ![1] = Str(logLevelPrefix \o <<" ">> \o StringOf(args[1]))]
  ELSE args

\* The calls made on underlying loggers when a function installed by
\* _configureLogging is invoked with args
Invoke(fn, args) ==
  CASE fn.v.kind = "bound" -> <<Call(fn.v.logger, fn.v.fnName, args)>>
    [] fn.v.kind = "logWithPrefix" ->
         <<Call(fn.v.logger, fn.v.fnName, PrefixedArgs(fn.v.logLevelPrefix, args))>>
    [] OTHER -> <<>>

-----------------------------------------------------------------------------
(* logging.js *)

isLoggingConfigured(tgt) ==
  /\ isBoolean(Get(tgt, "warnEnabled")) /\ isBoolean(Get(tgt, "infoEnabled"))
  /\ isBoolean(Get(tgt, "debugEnabled")) /\ isBoolean(Get(tgt, "traceEnabled"))
  /\ Typeof(Get(tgt, "error")) = "function" /\ Typeof(Get(tgt, "warn")) = "function"
  /\ Typeof(Get(tgt, "info")) = "function" /\ Typeof(Get(tgt, "debug")) = "function"
  /\ Typeof(Get(tgt, "trace")) = "function"

\* mutant: trims but does not convert to upper case
cleanLogLevel_NoUpperCase(logLevel) ==
  IF Truthy(logLevel) /\ HasTrim(logLevel) THEN Str(Trim(logLevel.v)) ELSE logLevel

cleanLogLevel(logLevel) ==
  IF Truthy(logLevel) /\ HasTrim(logLevel) THEN Str(ToUpperCase(Trim(logLevel.v))) ELSE logLevel

isValidLogLevel(logLevel) ==
  cleanLogLevel(logLevel) \in
    {LogLevel.ERROR, LogLevel.WARN, LogLevel.INFO, LogLevel.DEBUG, LogLevel.TRACE}

\* mutant: a warn function is demanded as well
isMinimumViableLogger_NeedsWarn(logger) ==
  IF logger = console THEN Bool(TRUE)
  ELSE IF ~Truthy(logger) THEN logger
  ELSE Bool(HasFunction(logger, "log") /\ HasFunction(logger, "error")
            /\ HasFunction(logger, "warn"))

\* the value of: logger === console || (logger && typeof logger.log === 'function'
\*                                      && typeof logger.error === 'function')
isMinimumViableLogger(logger) ==
  IF logger = console THEN Bool(TRUE)
  ELSE IF ~Truthy(logger) THEN logger
  ELSE Bool(HasFunction(logger, "log") /\ HasFunction(logger, "error"))

\* x.name for any value x; only object literals carry the settings properties
GetProp(x, name) == IF x.t = "plain" THEN Get(x.v, name) ELSE Undefined

SkippingLoggerWarning ==
  Call("console", "warn", <<Str(<<"S","k","i","p","p","i","n","g">>)>>)

\* if (!isValidLogLevel(cleaned.logLevel)) delete cleaned.logLevel, else clean it
cleanedLogLevel(cleaned) ==
  IF isValidLogLevel(Get(cleaned, "logLevel"))
  THEN Put(cleaned, "logLevel", cleanLogLevel(Get(cleaned, "logLevel")))
  ELSE Delete(cleaned, "logLevel")

cleanedUseLevelPrefixes(cleaned) ==
  IF ~isBoolean(Get(cleaned, "useLevelPrefixes"))
  THEN Delete(cleaned, "useLevelPrefixes") ELSE cleaned

\* cleaned.envLogLevelName.trim() on a value without a trim method
envLogLevelNameTrimFails(cleaned) ==
  isNotBlank(Get(cleaned, "envLogLevelName")) /\ ~HasTrim(Get(cleaned, "envLogLevelName"))

cleanedEnvLogLevelName(cleaned) ==
  IF isNotBlank(Get(cleaned, "envLogLevelName")) /\ HasTrim(Get(cleaned, "envLogLevelName"))
  THEN Put(cleaned, "envLogLevelName", Str(Trim(Get(cleaned, "envLogLevelName").v)))
  ELSE Delete(cleaned, "envLogLevelName")

cleanedUseConsoleTrace(cleaned) ==
  IF ~isBoolean(Get(cleaned, "useConsoleTrace"))
  THEN Delete(cleaned, "useConsoleTrace") ELSE cleaned

\* cleaned.underlyingLogger && !isMinimumViableLogger(cleaned.underlyingLogger)
skipsUnderlyingLogger(cleaned) ==
  /\ Truthy(Get(cleaned, "underlyingLogger"))
  /\ ~Truthy(isMinimumViableLogger(Get(cleaned, "underlyingLogger")))

cleanedUnderlyingLogger(cleaned) ==
  IF skipsUnderlyingLogger(cleaned) THEN Delete(cleaned, "underlyingLogger") ELSE cleaned

\* Result: threw ("none" or "TypeError"), value (undefined or the clean copy),
\* calls (console diagnostics)
toCleanSettingsOrOptions(optionsOrSettings) ==
  IF ~Truthy(optionsOrSettings) \/ Typeof(optionsOrSettings) # "object"
     \/ optionsOrSettings.t # "plain"
  THEN [threw |-> "none", value |-> Undefined, calls |-> <<>>]
  ELSE IF envLogLevelNameTrimFails(optionsOrSettings.v)
  THEN [threw |-> "TypeError", value |-> Undefined, calls |-> <<>>]
  ELSE [threw |-> "none",
        value |-> Plain(cleanedUnderlyingLogger(cleanedUseConsoleTrace(
                    cleanedEnvLogLevelName(cleanedUseLevelPrefixes(
                      cleanedLogLevel(copy(optionsOrSettings.v))))))),
        calls |-> IF skipsUnderlyingLogger(optionsOrSettings.v)
                  THEN <<SkippingLoggerWarning>> ELSE <<>>]

loadDefaultLoggingOptions(file) == toCleanSettingsOrOptions(Plain(file))

\* merge(defaults, defaultOptions) when options were loaded, else a copy of defaults
mergedWithDefaults(loaded) ==
  IF loaded.threw # "none" THEN loaded
  ELSE [loaded EXCEPT !.value =
          Plain(IF Truthy(loaded.value) THEN merge(defaults, loaded.value.v)
                ELSE copy(defaults))]

getDefaultLoggingOptions(file) == mergedWithDefaults(loadDefaultLoggingOptions(file))

\* The function resolveLoggingFunction returns; logger[loggingFnName].bind fails
\* when the logger has no such function
resolveLoggingFunction(logger, loggingFnName, useLogLevelPrefix, logLevelPrefix) ==
  IF ~HasFunction(logger, loggingFnName) THEN Undefined
  ELSE IF ~Truthy(useLogLevelPrefix) \/ (logger = console /\ loggingFnName = "trace")
  THEN Fn([kind |-> "bound", logger |-> logger.v, fnName |-> loggingFnName])
  ELSE Fn([kind |-> "logWithPrefix", logger |-> logger.v, fnName |-> loggingFnName,
           logLevelPrefix |-> logLevelPrefix])

\* mutant: no dispatcher when the log function is suppressed
extendLogFunction_OnlyWhenEnabled(boundLog) ==
  IF boundLog = noop THEN Undefined ELSE Fn([kind |-> "logAtLevel", log |-> boundLog])

\* logAtLevel closes over the target and the resolved log function
extendLogFunction(boundLog) == Fn([kind |-> "logAtLevel", log |-> boundLog])

-----------------------------------------------------------------------------
(* _configureLogging and configureLogging *)

NoLogMethodWarning == Call("console", "warn", <<Str(<<"N","O"," ","l","o","g">>)>>)
NoInfoMethodWarning == Call("console", "warn", <<Str(<<"N","O"," ","i","n","f","o">>)>>)
FatalError == Call("console", "error", <<Str(<<"F","A","T","A","L">>)>>)

\* `Logging configured with level ${logLevel}, with${useLevelPrefixes ? '' : 'out'}
\*  prefixes, with env log level name '${envLogLevelName}' & with${useConsoleTrace
\*  ? '' : 'out'} console.trace`
ConfiguredMessage(logLevel, useLevelPrefixes, envLogLevelName, useConsoleTrace) ==
  Str(<<"L","o","g","g","i","n","g"," ","c","o","n","f","i","g","u","r","e","d"," ","w","i","t","h"," ","l","e","v","e","l"," ">>
      \o StringOf(logLevel) \o <<","," ","w","i","t","h">>
      \o (IF Truthy(useLevelPrefixes) THEN <<>> ELSE <<"o","u","t">>)
      \o <<" ","p","r","e","f","i","x","e","s",","," ","w","i","t","h"," ","e","n","v"," ","l","o","g"," ","l","e","v","e","l"," ","n","a","m","e"," ","'">>
      \o StringOf(envLogLevelName) \o <<"'"," ","&"," ","w","i","t","h">>
      \o (IF Truthy(useConsoleTrace) THEN <<>> ELSE <<"o","u","t">>)
      \o <<" ","c","o","n","s","o","l","e",".","t","r","a","c","e">>)

\* process.env[name]
EnvLookup(environment, name) ==
  IF name.t = "string" /\ name.v \in DOMAIN environment THEN environment[name.v]
  ELSE Undefined

\* mutant: uses the environment value as it is written
effectiveLogLevel_Uncleaned(envLogLevel, settings) ==
  IF isValidLogLevel(envLogLevel) THEN envLogLevel ELSE Get(settings, "logLevel")

\* mutant: the level of the settings comes first
effectiveLogLevel_SettingsFirst(envLogLevel, settings) ==
  IF isValidLogLevel(Get(settings, "logLevel")) THEN Get(settings, "logLevel")
  ELSE cleanLogLevel(envLogLevel)

\* mutant: any text in the environment variable is taken for a level
effectiveLogLevel_AnyText(envLogLevel, settings) ==
  IF envLogLevel.t = "string" THEN cleanLogLevel(envLogLevel)
  ELSE Get(settings, "logLevel")

\* isValidLogLevel(envLogLevel) ? cleanLogLevel(envLogLevel) : settings.logLevel
effectiveLogLevel(envLogLevel, settings) ==
  IF isValidLogLevel(envLogLevel) THEN cleanLogLevel(envLogLevel)
  ELSE Get(settings, "logLevel")

\* mutant: warn is enabled at level WARN only
enabledFlags_WarnAtWarnOnly(logLevel) ==
  [trace |-> logLevel = LogLevel.TRACE,
   debug |-> logLevel \in {LogLevel.TRACE, LogLevel.DEBUG},
   info |-> logLevel \in {LogLevel.TRACE, LogLevel.DEBUG, LogLevel.INFO},
   warn |-> logLevel = LogLevel.WARN]

\* Use log level to determine which levels are enabled: each flag is the flag
\* of the next more verbose level or the level itself
enabledFlags(logLevel) ==
  [trace |-> logLevel = LogLevel.TRACE,
   debug |-> logLevel \in {LogLevel.TRACE, LogLevel.DEBUG},
   info |-> logLevel \in {LogLevel.TRACE, LogLevel.DEBUG, LogLevel.INFO},
   warn |-> logLevel \in {LogLevel.TRACE, LogLevel.DEBUG, LogLevel.INFO, LogLevel.WARN}]

\* mutant: console whatever the settings hold
selectedLogger_AlwaysConsole(settings) == console

\* isMinimumViableLogger(settings.underlyingLogger) ? settings.underlyingLogger : console
selectedLogger(settings) ==
  IF Truthy(isMinimumViableLogger(Get(settings, "underlyingLogger")))
  THEN Get(settings, "underlyingLogger") ELSE console

hasInfoMethod(logger) == logger = console \/ HasFunction(logger, "info")
hasLogMethod(logger) == logger = console \/ HasFunction(logger, "log")

\* the console warnings about a missing log or info method
loggerWarnings(logger) ==
  (IF ~hasLogMethod(logger) THEN <<NoLogMethodWarning>> ELSE <<>>)
  \o (IF ~hasInfoMethod(logger) THEN <<NoInfoMethodWarning>> ELSE <<>>)

warnFnName(logger) ==
  IF logger = console THEN "warn"
  ELSE IF HasFunction(logger, "warn") THEN "warn" ELSE "error"

infoFnName(logger) ==
  IF logger = console THEN "info"
  ELSE IF HasFunction(logger, "info") THEN "info" ELSE "log"

\* mutant: no fallback for a logger without a debug method
debugFnName_NoFallback(logger) == IF logger = console THEN "info" ELSE "debug"

debugFnName(logger) ==
  IF logger = console THEN "info"
  ELSE IF HasFunction(logger, "debug") THEN "debug" ELSE infoFnName(logger)

\* mutant: console.trace whenever the logger is console
traceFnName_ConsoleTraceAlways(logger, useConsoleTrace) ==
  IF logger = console THEN "trace"
  ELSE IF HasFunction(logger, "trace") THEN "trace" ELSE debugFnName(logger)

traceFnName(logger, useConsoleTrace) ==
  IF logger = console THEN (IF Truthy(useConsoleTrace) THEN "trace" ELSE "info")
  ELSE IF HasFunction(logger, "trace") THEN "trace" ELSE debugFnName(logger)

\* mutant: the log function prefers the info method of the logger
logFnName_InfoFirst(logger) == IF logger = console THEN "log" ELSE infoFnName(logger)

logFnName(logger) ==
  IF logger = console THEN "log"
  ELSE IF HasFunction(logger, "log") THEN "log" ELSE infoFnName(logger)

\* the logging functions resolved for the enabled levels, noop for the others
loggingFunctions(logger, enabled, useLevelPrefixes, useConsoleTrace) ==
  [error |-> resolveLoggingFunction(logger, "error", useLevelPrefixes, ERROR),
   warn |-> IF enabled.warn
            THEN resolveLoggingFunction(logger, warnFnName(logger), useLevelPrefixes, WARN)
            ELSE noop,
   info |-> IF enabled.info
            THEN resolveLoggingFunction(logger, infoFnName(logger), useLevelPrefixes, INFO)
            ELSE noop,
   debug |-> IF enabled.debug
             THEN resolveLoggingFunction(logger, debugFnName(logger), useLevelPrefixes, DEBUG)
             ELSE noop,
   trace |-> IF enabled.trace
             THEN resolveLoggingFunction(logger, traceFnName(logger, useConsoleTrace),
                                         useLevelPrefixes, TRACE)
             ELSE noop,
   log |-> IF enabled.info
           THEN resolveLoggingFunction(logger, logFnName(logger), useLevelPrefixes, LOG)
           ELSE noop]

\* mutant: a log method the target already has is kept
assignLogging_KeepsDispatcher(tgt, logLevel, logger, enabled, fns) ==
  Put(Put(Put(Put(Put(Put(Put(Put(Put(Put(Put(Put(tgt,
    "logLevel", logLevel),
    "_underlyingLogger", logger),
    "warnEnabled", Bool(enabled.warn)),
    "infoEnabled", Bool(enabled.info)),
    "debugEnabled", Bool(enabled.debug)),
    "traceEnabled", Bool(enabled.trace)),
    "error", fns.error),
    "warn", fns.warn),
    "info", fns.info),
    "debug", fns.debug),
    "trace", fns.trace),
    "log", IF Typeof(Get(tgt, "log")) = "function" THEN Get(tgt, "log")
           ELSE extendLogFunction(fns.log))

\* target.logLevel = logLevel; ... target.log = extendLogFunction(log), in the
\* order of the assignments
assignLogging(tgt, logLevel, logger, enabled, fns) ==
  Put(Put(Put(Put(Put(Put(Put(Put(Put(Put(Put(Put(tgt,
    "logLevel", logLevel),
    "_underlyingLogger", logger),
    "warnEnabled", Bool(enabled.warn)),
    "infoEnabled", Bool(enabled.info)),
    "debugEnabled", Bool(enabled.debug)),
    "traceEnabled", Bool(enabled.trace)),
    "error", fns.error),
    "warn", fns.warn),
    "info", fns.info),
    "debug", fns.debug),
    "trace", fns.trace),
    "log", extendLogFunction(fns.log))

\* mutant: no confirmation is logged
configureResolved_Silent(tgt, settings, logLevel, logger, enabled, fns) ==
  IF ~hasLogMethod(logger) /\ ~hasInfoMethod(logger)
  THEN [threw |-> "Error", target |-> tgt, calls |-> <<>>]
  ELSE IF \E k \in DOMAIN fns : fns[k] = Undefined
  THEN [threw |-> "TypeError", target |-> tgt, calls |-> loggerWarnings(logger)]
  ELSE [threw |-> "none",
        target |-> assignLogging(tgt, logLevel, logger, enabled, fns),
        calls |-> loggerWarnings(logger)]

\* _configureLogging once the level, the logger and the functions are resolved
configureResolved(tgt, settings, logLevel, logger, enabled, fns) ==
  IF ~hasLogMethod(logger) /\ ~hasInfoMethod(logger)
  THEN [threw |-> "Error", target |-> tgt, calls |-> <<>>]
  ELSE IF \E k \in DOMAIN fns : fns[k] = Undefined
  THEN [threw |-> "TypeError", target |-> tgt, calls |-> loggerWarnings(logger)]
  ELSE [threw |-> "none",
        target |-> assignLogging(tgt, logLevel, logger, enabled, fns),
        calls |-> loggerWarnings(logger) \o
          Invoke(fns.debug,
                 <<ConfiguredMessage(logLevel, Get(settings, "useLevelPrefixes"),
                                     Get(settings, "envLogLevelName"),
                                     Get(settings, "useConsoleTrace"))>>)]

\* _configureLogging once the level and the logger are chosen
configureAtLevel(tgt, settings, logLevel, logger) ==
  configureResolved(tgt, settings, logLevel, logger, enabledFlags(logLevel),
    loggingFunctions(logger, enabledFlags(logLevel), Get(settings, "useLevelPrefixes"),
                     Get(settings, "useConsoleTrace")))

\* Result: threw, target (the target's properties afterwards), calls
_configureLogging(tgt, settings, environment) ==
  configureAtLevel(tgt, settings,
    effectiveLogLevel(EnvLookup(environment, Get(settings, "envLogLevelName")), settings),
    selectedLogger(settings))

\* mutant: every call configures the target
skipConfiguration_Never(tgt, forceConfiguration) == FALSE

\* mutant: only the value false counts as not forced
skipConfiguration_StrictFalse(tgt, forceConfiguration) ==
  forceConfiguration = Bool(FALSE) /\ isLoggingConfigured(tgt)

\* mutant: a configured target is never configured again
skipConfiguration_IgnoresForce(tgt, forceConfiguration) == isLoggingConfigured(tgt)

\* !forceConfiguration && isLoggingConfigured(target): return the target as is
skipConfiguration(tgt, forceConfiguration) ==
  ~Truthy(forceConfiguration) /\ isLoggingConfigured(tgt)

\* mutant: the logger of options is preferred to the logger of settings
demandedLogger_OptionsFirst(settings, options) ==
  IF Truthy(options) /\ Truthy(GetProp(options, "underlyingLogger"))
  THEN GetProp(options, "underlyingLogger")
  ELSE IF Truthy(settings) /\ Truthy(GetProp(settings, "underlyingLogger"))
  THEN GetProp(settings, "underlyingLogger")
  ELSE Undefined

\* mutant: an invalid logger of options is demanded even when settings has a logger
demandedLogger_InvalidOfOptions(settings, options) ==
  IF /\ Truthy(options) /\ Truthy(GetProp(options, "underlyingLogger"))
     /\ ~Truthy(isMinimumViableLogger(GetProp(options, "underlyingLogger")))
  THEN GetProp(options, "underlyingLogger")
  ELSE IF Truthy(settings) /\ Truthy(GetProp(settings, "underlyingLogger"))
  THEN GetProp(settings, "underlyingLogger")
  ELSE Undefined

\* The underlying logger that must be a minimum viable logger
demandedLogger(settings, options) ==
  IF Truthy(settings) /\ Truthy(GetProp(settings, "underlyingLogger"))
  THEN GetProp(settings, "underlyingLogger")
  ELSE IF Truthy(options) /\ Truthy(GetProp(options, "underlyingLogger"))
  THEN GetProp(options, "underlyingLogger")
  ELSE Undefined

\* mutant: the logger is recorded on the target before it is validated
rejectLogger_RecordsLogger(tgt, logger) ==
  [threw |-> "Error", target |-> Put(tgt, "_underlyingLogger", logger),
   calls |-> <<FatalError>>]

\* console.error(errMsg); throw new Error(errMsg): the target as the throw leaves it
rejectLogger(tgt, logger) ==
  [threw |-> "Error", target |-> tgt, calls |-> <<FatalError>>]

\* Result of configureLogging: path ("unchanged": already configured and not
\* forced; "configured"; "threw"), threw, returned, target, calls, used (the
\* settings passed to _configureLogging)
Outcome(path, threw, tgt, calls, used) ==
  [path |-> path, threw |-> threw,
   returned |-> IF threw = "none" THEN "target" ELSE "nothing",
   target |-> tgt, calls |-> calls, used |-> used]

\* `used` of a call that does not reach _configureLogging
unused == [none |-> Undefined]

\* settings ? options ? merge(options, settings) : settings : options
loggingSettings(settings, options) ==
  IF Truthy(settings)
  THEN (IF Truthy(options) THEN Plain(merge(options.v, settings.v)) ELSE settings)
  ELSE options

\* loggingSettings ? merge(defaultOptions, loggingSettings) : defaultOptions
loggingSettingsWithDefaults(settings, defaultLoggingOptions) ==
  IF Truthy(settings) THEN merge(defaultLoggingOptions.v, settings.v)
  ELSE defaultLoggingOptions.v

\* the outcome of configureLogging given that of _configureLogging
configuredOutcome(calls, used, configured) ==
  Outcome(IF configured.threw # "none" THEN "threw" ELSE "configured",
          configured.threw, configured.target, calls \o configured.calls, used)

\* configureLogging once the logging settings are merged
configureWithSettings(tgt, calls, settings, environment) ==
  configuredOutcome(calls, settings, _configureLogging(tgt, settings, environment))

\* configureLogging from the clean settings and options on
configureWithClean(tgt, cleanSettings, cleanOptions, defaultLoggingOptions, environment) ==
  IF cleanSettings.threw # "none"
  THEN Outcome("threw", cleanSettings.threw, tgt, <<>>, unused)
  ELSE IF cleanOptions.threw # "none"
  THEN Outcome("threw", cleanOptions.threw, tgt, cleanSettings.calls, unused)
  ELSE IF defaultLoggingOptions.threw # "none"
  THEN Outcome("threw", defaultLoggingOptions.threw, tgt,
               cleanSettings.calls \o cleanOptions.calls, unused)
  ELSE configureWithSettings(tgt,
         cleanSettings.calls \o cleanOptions.calls \o defaultLoggingOptions.calls,
         loggingSettingsWithDefaults(
           loggingSettings(cleanSettings.value, cleanOptions.value),
           defaultLoggingOptions.value),
         environment)

\* the outcome of configureLogging when it throws for an invalid logger
rejectedOutcome(rejected) ==
  Outcome("threw", rejected.threw, rejected.target, rejected.calls, unused)

configureLogging(tgt, settings, options, forceConfiguration, environment, file) ==
  IF skipConfiguration(tgt, forceConfiguration)
  THEN Outcome("unchanged", "none", tgt, <<>>, unused)
  ELSE IF /\ Truthy(demandedLogger(settings, options))
          /\ ~Truthy(isMinimumViableLogger(demandedLogger(settings, options)))
  THEN rejectedOutcome(rejectLogger(tgt, demandedLogger(settings, options)))
  ELSE configureWithClean(tgt, toCleanSettingsOrOptions(settings),
                          toCleanSettingsOrOptions(options),
                          getDefaultLoggingOptions(file), environment)

-----------------------------------------------------------------------------
(* The log dispatcher installed on the target and the free function log *)

IsLetter(c) ==
  \E i \in 1..Len(LowerCase) : c = LowerCase[i] \/ c = UpperCase[i]

\* the alternatives of levelPrefixedRegex in their order
LevelAlternatives == <<ERROR, WARN, INFO, DEBUG, TRACE, LOG>>

\* (ERROR|WARN|INFO|DEBUG|TRACE|LOG)(?:$|[^A-Za-z]...) matches s from position q
LevelMatchesAt(s, q, name) ==
  /\ q + Len(name) - 1 <= Len(s)
  /\ SubSeq(s, q, q + Len(name) - 1) = name
  /\ (q + Len(name) > Len(s) \/ ~IsLetter(s[q + Len(name)]))

\* the positions where the regular expression, which is not anchored, matches
LevelMatchPositions(s) ==
  {q \in 1..Len(s) : \E i \in 1..Len(LevelAlternatives) :
                        LevelMatchesAt(s, q, LevelAlternatives[i])}

\* the first character after position a that [^A-Za-z]+ does not take
NonLetterRunEnd(s, a) ==
  IF \E b \in a..Len(s) : IsLetter(s[b])
  THEN CHOOSE b \in a..Len(s) : IsLetter(s[b]) /\ \A k \in a..(b - 1) : ~IsLetter(s[k])
  ELSE Len(s) + 1

\* the last character .* takes from position b: it stops before a line end
DotStarEnd(s, b) ==
  IF \E e \in b..Len(s) : s[e] = "\n"
  THEN (CHOOSE e \in b..Len(s) : s[e] = "\n" /\ \A k \in b..(e - 1) : s[k] # "\n") - 1
  ELSE Len(s)

\* match[2]: undefined at the end of the input, else ([^A-Za-z]+.*)
LevelMatchRest(s, a) ==
  IF a > Len(s) THEN Undefined
  ELSE Str(SubSeq(s, a, DotStarEnd(s, NonLetterRunEnd(s, a))))

\* [match[1], trim(match[2])] for the leftmost match, which starts at q
LevelAndRestAt(s, q) ==
  [level |-> Str(CHOOSE name \in {LevelAlternatives[i] : i \in 1..Len(LevelAlternatives)} :
                   LevelMatchesAt(s, q, name)),
   rest |-> trim(LevelMatchRest(s, q + Len(CHOOSE name \in
                   {LevelAlternatives[i] : i \in 1..Len(LevelAlternatives)} :
                   LevelMatchesAt(s, q, name))))]

\* levelPrefixedRegex.exec(input) converts the input to a string first
extractLogLevelAndRestOfString(input, s) ==
  IF LevelMatchPositions(s) = {} THEN [level |-> Undefined, rest |-> input]
  ELSE LevelAndRestAt(s, CHOOSE q \in LevelMatchPositions(s) :
                           \A r \in LevelMatchPositions(s) : q <= r)

extractLogLevelAndRest(input) == extractLogLevelAndRestOfString(input, StringOf(input))

\* mutant: the level stays among the arguments
logAtLevelArgs_KeepsLevel(arguments, extracted) ==
  IF Truthy(extracted.level) /\ Truthy(extracted.rest)
  THEN [arguments EXCEPT ![1] = extracted.rest]
  ELSE arguments

\* the arguments logAtLevel passes on: all of them without a level, the rest of
\* the first argument in place of it, or the arguments after the first
logAtLevelArgs(arguments, extracted) ==
  IF ~Truthy(extracted.level) THEN arguments
  ELSE IF Truthy(extracted.rest) THEN [arguments EXCEPT ![1] = extracted.rest]
  ELSE Tail(arguments)

\* mutant: every level goes to the log function
logAtLevelFunction_AlwaysLog(self, boundLog, logLevel) == boundLog

\* switch (logLevel): the function logAtLevel applies to the arguments
logAtLevelFunction(self, boundLog, logLevel) ==
  CASE logLevel = LogLevel.ERROR -> Get(self, "error")
    [] logLevel = LogLevel.WARN -> Get(self, "warn")
    [] logLevel = LogLevel.INFO -> Get(self, "info")
    [] logLevel = LogLevel.DEBUG -> Get(self, "debug")
    [] logLevel = LogLevel.TRACE -> Get(self, "trace")
    [] OTHER -> boundLog

logAtLevelWith(self, boundLog, arguments, extracted) ==
  Invoke(logAtLevelFunction(self, boundLog, extracted.level),
         logAtLevelArgs(arguments, extracted))

\* logAtLevel of extendLogFunction: the calls made on the underlying logger
logAtLevel(self, boundLog, arguments) ==
  IF Len(arguments) <= 0 THEN Invoke(boundLog, <<>>)
  ELSE logAtLevelWith(self, boundLog, arguments, extractLogLevelAndRest(arguments[1]))

\* target[name](...arguments): the calls made on the underlying logger
InvokeMethod(self, name, arguments) ==
  IF Get(self, name).t = "function" /\ Get(self, name).v.kind = "logAtLevel"
  THEN logAtLevel(self, Get(self, name).v.log, arguments)
  ELSE Invoke(Get(self, name), arguments)

\* typeof logger[name] === 'function' for a logger-like object or a target
HasMethod(logger, name) ==
  \/ HasFunction(logger, name)
  \/ logger.t = "plain" /\ Typeof(Get(logger.v, name)) = "function"

\* logger[name].apply(logger, args): direct is the call log makes, calls are
\* the calls that reach console or a logger-like object
ApplyMethod(logger, name, args) ==
  IF logger.t = "plain"
  THEN [direct |-> Call("target", name, args), calls |-> InvokeMethod(logger.v, name, args)]
  ELSE [direct |-> Call(logger.v, name, args), calls |-> <<Call(logger.v, name, args)>>]

\* mutant: the info method is preferred to the log method
logWithLogger_InfoFirst(logger, args) ==
  IF Truthy(logger) /\ HasMethod(logger, "info") THEN ApplyMethod(logger, "info", args)
  ELSE IF Truthy(logger) /\ HasMethod(logger, "log") THEN ApplyMethod(logger, "log", args)
  ELSE ApplyMethod(console, "log", args)

\* the free function log with the logger and the data
logWithLogger(logger, args) ==
  IF Truthy(logger) /\ HasMethod(logger, "log") THEN ApplyMethod(logger, "log", args)
  ELSE IF Truthy(logger) /\ HasMethod(logger, "info") THEN ApplyMethod(logger, "info", args)
  ELSE ApplyMethod(console, "log", args)

\* log(logger, ...data), given all its arguments
log(arguments) ==
  IF Len(arguments) <= 0 THEN ApplyMethod(console, "log", <<>>)
  ELSE logWithLogger(arguments[1], Tail(arguments))

-----------------------------------------------------------------------------
(* Bounds and the inputs drawn from them *)

\* the most white space put on each side of a level or of a variable name
MaxPadding == 1

Spaces(n) == [i \in 1..n |-> " "]
Padded(s, n) == Spaces(n) \o s \o Spaces(n)

logLevelName == <<"l","o","g","L","e","v","e","l">>
EnvNames == {LOG_LEVEL, logLevelName}

\* what an environment variable may hold: LOG_LEVEL a lower-case level in white
\* space or the text left by process.env.LOG_LEVEL = undefined, logLevel a
\* canonical level
EnvStrings(name) ==
  IF name = LOG_LEVEL
  THEN {Str(Padded(<<"d","e","b","u","g">>, MaxPadding)),
        Str(<<"u","n","d","e","f","i","n","e","d">>)}
  ELSE {Str(WARN)}

Environments ==
  {e \in [EnvNames -> UNION {EnvStrings(n) : n \in EnvNames} \cup {Undefined}] :
     \A n \in EnvNames : e[n] \in EnvStrings(n) \cup {Undefined}}

EmptyObject == [k \in {} |-> Undefined]

\* default-options.json: without fields, with a valid value for every field,
\* and with an unusable value for every field
DefaultOptionsFiles ==
  { EmptyObject,
    [logLevel |-> Str(<<"d","e","b","u","g">>), useLevelPrefixes |-> Bool(FALSE),
     envLogLevelName |-> Str(logLevelName), useConsoleTrace |-> Bool(TRUE)],
    [logLevel |-> Str(<<"V","E","R","B","O","S","E">>),
     useLevelPrefixes |-> Str(<<"y","e","s">>),
     envLogLevelName |-> Str(Spaces(2)), useConsoleTrace |-> Null] }

UserFunction == Fn([kind |-> "user"])

\* The target before the first call: without logging properties, with some
\* of them, or with flags and level methods the caller made itself
EmptyTarget == [abc |-> Num(123)]

PartialTarget == [abc |-> Num(123), warnEnabled |-> Bool(TRUE), error |-> UserFunction]

ForeignTarget ==
  [abc |-> Num(123), warnEnabled |-> Bool(TRUE), infoEnabled |-> Bool(FALSE),
   debugEnabled |-> Bool(TRUE), traceEnabled |-> Bool(FALSE), error |-> UserFunction,
   warn |-> UserFunction, info |-> UserFunction, debug |-> UserFunction,
   trace |-> UserFunction]

InitialTargets == {EmptyTarget, PartialTarget, ForeignTarget}

\* settings and options of the calls made one after another on the target
SettingsInputs ==
  {Undefined}
    \cup {Plain([logLevel |-> Str(TRACE), underlyingLogger |-> u]) :
            u \in {Ref("AllOK"), Ref("NoError")}}
    \cup {Plain([logLevel |-> Str(Padded(<<"e","r","r","o","r">>, MaxPadding)),
                 underlyingLogger |-> Ref("Override")])}
    \cup {Plain([logLevel |-> Str(DEBUG), useLevelPrefixes |-> Bool(FALSE),
                 envLogLevelName |-> Str(Padded(logLevelName, MaxPadding)),
                 useConsoleTrace |-> Bool(TRUE)]),
          Plain([underlyingLogger |-> Ref("MinViable")]),
          Plain([logLevel |-> Num(42), underlyingLogger |-> Ref("NoLog")])}

OptionsInputs ==
  {Undefined,
   Plain([logLevel |-> Str(WARN), useLevelPrefixes |-> Bool(FALSE),
          underlyingLogger |-> Ref("AllOK")]),
   Plain([underlyingLogger |-> Ref("NoError")])}

ForceInputs == {Undefined, Bool(TRUE)}

\* an object literal with the properties of fields that are not `absent`
absent == [t |-> "absent", v |-> <<>>]
Literal(fields) == Plain([k \in {f \in DOMAIN fields : fields[f] # absent} |-> fields[k]])

\* settings and options of a single call, each field well-formed, malformed
\* or missing independently of the others
MalformedSettingsInputs ==
  {Null, Str(<<"x">>)} \cup
  {Literal([logLevel |-> l, useLevelPrefixes |-> p, envLogLevelName |-> n,
            useConsoleTrace |-> c, underlyingLogger |-> u]) :
     l \in {absent, Str(ERROR), Str(Padded(<<"t","r","a","c","e">>, MaxPadding)),
            Str(<<"V","E","R","B","O","S","E">>), Num(42)},
     p \in {absent, Bool(FALSE), Str(<<"t","r","u","e">>)},
     n \in {absent, Str(Padded(logLevelName, MaxPadding)), Str(Spaces(MaxPadding)),
            Num(42)},
     c \in {absent, Bool(TRUE), Null},
     u \in {absent, Ref("AllOK")}}

MalformedOptionsInputs ==
  {Undefined} \cup
  {Literal([logLevel |-> l, useLevelPrefixes |-> p, envLogLevelName |-> n,
            useConsoleTrace |-> c]) :
     l \in {absent, Str(WARN), Str(<<"V","E","R","B","O","S","E">>)},
     p \in {absent, Bool(FALSE)},
     n \in {absent, Str(logLevelName)},
     c \in {Bool(TRUE), Num(1)}}

-----------------------------------------------------------------------------
(* The state machine *)

\* The record of the last operation: what it was given (settings, options and
\* force of configureLogging; method and args of a method of the target; args
\* of log and isMinimumViableLogger) and what it did (path, threw, returned and
\* used of configureLogging; settingsAfter and optionsAfter, the objects of the
\* caller after configureLogging; direct, the call log made itself; value, the
\* value returned; calls, the calls that reached console or a logger-like object)
NoOperation(op) ==
  [op |-> op, settings |-> Undefined, options |-> Undefined, force |-> Undefined,
   wasConfigured |-> FALSE, path |-> "none", threw |-> "none", returned |-> "nothing",
   calls |-> <<>>, used |-> [none |-> Undefined], method |-> "none", args |-> <<>>,
   direct |-> <<>>, value |-> Undefined, settingsAfter |-> Undefined,
   optionsAfter |-> Undefined]

\* mutant: the argument itself is cleaned
objectCleaned_IsArgument(optionsOrSettings) == "argument"

\* const cleaned = copy(optionsOrSettings): the object whose properties
\* toCleanSettingsOrOptions deletes and the merges fill in is the copy
objectCleaned(optionsOrSettings) == "copy"

\* the settings object of the caller after a call: the merges of lines 166 and
\* 171 write into the object cleaned from settings
settingsAfterCall(settings, path, used) ==
  IF settings.t = "plain" /\ path = "configured" /\ objectCleaned(settings) = "argument"
  THEN Plain(used)
  ELSE settings

\* the options object of the caller after a call: the merge of line 171 writes
\* into the object cleaned from options when there are no settings
optionsAfterCall(settings, options, path, used) ==
  IF options.t = "plain" /\ path = "configured" /\ objectCleaned(options) = "argument"
  THEN (IF settings.t = "plain" THEN toCleanSettingsOrOptions(options).value
        ELSE Plain(used))
  ELSE options

Init ==
  /\ target \in InitialTargets
  /\ env \in Environments
  /\ defaultOptions \in DefaultOptionsFiles
  /\ installed = FALSE
  /\ last = NoOperation("init")

\* configureLogging(target, settings, options, forceConfiguration)
Configure(settings, options, forceConfiguration) ==
  \E r \in {configureLogging(target, settings, options, forceConfiguration, env,
                             defaultOptions)} :
     /\ target' = r.target
     /\ installed' = (installed \/ r.path = "configured")
     /\ last' = [NoOperation("configureLogging") EXCEPT
                   !.settings = settings, !.options = options,
                   !.force = forceConfiguration,
                   !.wasConfigured = isLoggingConfigured(target), !.path = r.path,
                   !.threw = r.threw, !.returned = r.returned, !.calls = r.calls,
                   !.used = r.used,
                   !.settingsAfter = settingsAfterCall(settings, r.path, r.used),
                   !.optionsAfter = optionsAfterCall(settings, options, r.path, r.used)]
     /\ UNCHANGED <<env, defaultOptions>>

ConfigureLogging ==
  \E settings \in SettingsInputs, options \in OptionsInputs, force \in ForceInputs :
    Configure(settings, options, force)

\* process.env[name] = value
SetEnv ==
  \E name \in EnvNames : \E value \in EnvStrings(name) :
    /\ env[name] # value
    /\ env' = [env EXCEPT ![name] = value]
    /\ last' = NoOperation("setEnv")
    /\ UNCHANGED <<target, defaultOptions, installed>>

\* delete process.env[name]
DeleteEnv ==
  \E name \in EnvNames :
    /\ env[name] # Undefined
    /\ env' = [env EXCEPT ![name] = Undefined]
    /\ last' = NoOperation("deleteEnv")
    /\ UNCHANGED <<target, defaultOptions, installed>>

Next == ConfigureLogging \/ SetEnv \/ DeleteEnv

Spec == Init /\ [][Next]_vars

-----------------------------------------------------------------------------
(* Using a configured target *)

Levels == {ERROR, WARN, INFO, DEBUG, TRACE}

\* the minimum viable loggers other than console, with every subset of warn,
\* info, debug and trace
MinimumViableLoggers == {Ref("AllOK"), Ref("MinViable")} \cup {Ref(id) : id \in DOMAIN IncompleteLoggers}

\* settings that name the level, the prefixes and the logger; useConsoleTrace
\* matters for console only
LevelSettingsInputs ==
  {Plain([logLevel |-> Str(l), useLevelPrefixes |-> Bool(p), useConsoleTrace |-> Bool(c),
          underlyingLogger |-> console]) : l \in Levels, p \in BOOLEAN, c \in BOOLEAN}
  \cup
  {Plain([logLevel |-> Str(l), useLevelPrefixes |-> Bool(p), underlyingLogger |-> u]) :
     l \in Levels, p \in BOOLEAN, u \in MinimumViableLoggers}

DispatchSettingsInputs ==
  {Plain([logLevel |-> Str(l), useLevelPrefixes |-> Bool(p), useConsoleTrace |-> Bool(c),
          underlyingLogger |-> console]) : l \in Levels, p \in BOOLEAN, c \in {TRUE}}
  \cup
  {Plain([logLevel |-> Str(l), useLevelPrefixes |-> Bool(p), underlyingLogger |-> u]) :
     l \in Levels, p \in BOOLEAN, u \in {Ref("AllOK"), Ref("MinViable")}}

LevelMethodNames == {"error", "warn", "info", "debug", "trace"}

\* the level a level method logs at
LevelOfMethod == [error |-> ERROR, warn |-> WARN, info |-> INFO, debug |-> DEBUG,
                  trace |-> TRACE]

Hello == <<"h","e","l","l","o">>

\* arguments of the method of a level: none, a message, a message and a number,
\* a number, a message that starts with the level and one that starts with
\* another level
LevelMethodArgs(name) ==
  {<<>>, <<Str(Hello)>>, <<Str(Hello), Num(7)>>, <<Num(42)>>,
   <<Str(LevelOfMethod[name] \o <<" ">> \o Hello)>>,
   <<Str((IF name = "info" THEN LOG ELSE INFO) \o <<" ">> \o Hello), Num(7)>>}

\* arguments of target.log and data of the function log: a level alone, with
\* more arguments, in white space, with text of one or two lines after it in
\* the first argument, after other text and before a letter
LogMethodArgs ==
  {<<>>, <<Str(Hello)>>, <<Str(Hello), Num(7)>>, <<Num(42), Str(Hello)>>,
   <<Str(LOG)>>, <<Str(LOG \o <<" ">> \o Hello), Num(7)>>,
   <<Str(<<"w","a","r","n">>), Str(Hello)>>,
   <<Str(INFO \o <<"X">>), Str(Hello)>>,
   <<Str(<<"m","y"," ">> \o ERROR \o <<":"," ">> \o Hello)>>}
  \cup {<<Str(l)>> : l \in Levels}
  \cup {<<Str(l), Str(Hello), Num(7)>> : l \in Levels}
  \cup {<<Str(Spaces(MaxPadding) \o l \o <<" ">> \o Hello)>> : l \in {ERROR, DEBUG}}
  \cup {<<Str(WARN \o <<":"," ">> \o Hello), Num(7)>>,
        <<Str(Padded(DEBUG, MaxPadding)), Str(Hello)>>,
        <<Str(ERROR \o <<":"," ">> \o Hello \o <<"\n">> \o Hello)>>,
        <<Str(<<"x">> \o ERROR), Str(Hello)>>,
        <<Str(<<"m","y"," ">> \o WARN \o <<":"," ">> \o Hello), Num(7)>>}

\* what the function log may be given as its logger, the target apart
LogFunctionLoggers ==
  {Undefined, Null, Str(Hello), console, Ref("MinViable"), Ref("NoLog"), Ref("OnlyError"),
   Plain(EmptyTarget)}

LogFunctionData ==
  {<<>>, <<Str(Hello)>>, <<Str(WARN), Str(Hello)>>, <<Str(TRACE), Str(Hello), Num(7)>>}

\* what isMinimumViableLogger may be given
LoggerCandidates ==
  {Undefined, Null, Num(0), Str(Hello), Plain(EmptyObject)} \cup {Ref(id) : id \in DOMAIN Heap}

\* target[name](...args)
CallMethod(name, args) ==
  /\ installed
  /\ Typeof(Get(target, name)) = "function"
  /\ last' = [NoOperation("call") EXCEPT !.method = name, !.args = args,
                                         !.calls = InvokeMethod(target, name, args)]
  /\ UNCHANGED <<target, env, defaultOptions, installed>>

\* target.error(...args), ..., target.trace(...args)
CallLevelMethod ==
  \E name \in LevelMethodNames : \E args \in LevelMethodArgs(name) : CallMethod(name, args)

\* target.log(...args)
CallLogMethod == \E args \in LogMethodArgs : CallMethod("log", args)

LogFunction(arguments) ==
  \E r \in {log(arguments)} :
    /\ last' = [NoOperation("log") EXCEPT !.args = arguments, !.direct = <<r.direct>>,
                                          !.calls = r.calls]
    /\ UNCHANGED <<target, env, defaultOptions, installed>>

\* log(), log(logger, ...data) and log(target, ...data)
CallLogFunction ==
  \/ LogFunction(<<>>)
  \/ \E logger \in LogFunctionLoggers \cup {Plain(target)}, data \in LogFunctionData :
       LogFunction(<<logger>> \o data)

\* isMinimumViableLogger(logger)
CheckLogger ==
  \E logger \in LoggerCandidates :
    /\ last' = [NoOperation("isMinimumViableLogger") EXCEPT
                  !.args = <<logger>>, !.value = isMinimumViableLogger(logger)]
    /\ UNCHANGED <<target, env, defaultOptions, installed>>

\* a target without logging properties, no level in the environment and no
\* default options
InitUnconfigured ==
  /\ Init
  /\ target = EmptyTarget
  /\ \A name \in EnvNames : env[name] = Undefined
  /\ defaultOptions = EmptyObject

ConfigureLevels ==
  /\ ~installed
  /\ \E settings \in LevelSettingsInputs : Configure(settings, Undefined, Undefined)

NextLevels == ConfigureLevels \/ CallLevelMethod

\* One configuration, then calls of the methods of the levels
SpecLevels == InitUnconfigured /\ [][NextLevels]_vars

ConfigureDispatch ==
  /\ ~installed
  /\ \E settings \in DispatchSettingsInputs : Configure(settings, Undefined, Undefined)

NextDispatch == ConfigureDispatch \/ CallLogMethod \/ CallLogFunction \/ CheckLogger

\* One configuration, and calls of target.log, log and isMinimumViableLogger
SpecDispatch == InitUnconfigured /\ [][NextDispatch]_vars

\* a single call on a target without logging properties
ConfigureLoggingOnce ==
  /\ last.op = "init"
  /\ \E settings \in MalformedSettingsInputs, options \in MalformedOptionsInputs :
       Configure(settings, options, Undefined)

\* The calls start on a target without logging properties
InitFromEmpty == Init /\ target = EmptyTarget

SpecFromEmpty == InitFromEmpty /\ [][Next]_vars

NextOnce == ConfigureLoggingOnce

SpecOnce == InitFromEmpty /\ [][NextOnce]_vars

\* settings of the later calls: each names a logger
ReconfigureSettingsInputs ==
  {Plain([logLevel |-> Str(TRACE), underlyingLogger |-> Ref("AllOK")]),
   Plain([logLevel |-> Str(WARN), useLevelPrefixes |-> Bool(FALSE),
          underlyingLogger |-> Ref("MinViable")]),
   Plain([underlyingLogger |-> console])}

\* the first call configures the target on console, with the defaults
ConfigureFirst ==
  /\ ~installed
  /\ Configure(Undefined, Undefined, Undefined)

\* later calls, forced or not, name a logger
Reconfigure ==
  /\ installed
  /\ \E settings \in ReconfigureSettingsInputs, force \in ForceInputs :
       Configure(settings, Undefined, force)

\* a target without logging properties, any environment and no default options
InitWithoutDefaults == InitFromEmpty /\ defaultOptions = EmptyObject

NextReconfigure ==
  \/ ConfigureFirst \/ Reconfigure
  \/ SetEnv \/ DeleteEnv
  \/ CallLevelMethod \/ CallLogMethod

\* A target configured on console and configured again, changes of the
\* environment and calls of the methods of the target
SpecReconfigure == InitWithoutDefaults /\ [][NextReconfigure]_vars

-----------------------------------------------------------------------------
(* What the claims speak of *)

LevelNames == <<ERROR, WARN, INFO, DEBUG, TRACE>>

\* ERROR = 0 < WARN = 1 < INFO = 2 < DEBUG = 3 < TRACE = 4
Rank(level) == (CHOOSE i \in 1..Len(LevelNames) : LevelNames[i] = level) - 1

IsLevel(x) == x.t = "string" /\ \E i \in 1..Len(LevelNames) : LevelNames[i] = x.v

\* the string x spells the level name in upper or lower case letters, with any
\* white space before and after it
HoldsLevel(x, level) ==
  /\ x.t = "string"
  /\ \E i \in 0..Len(x.v) :
       /\ i + Len(level) <= Len(x.v)
       /\ \A k \in 1..i : IsWhiteSpace(x.v[k])
       /\ \A k \in 1..Len(level) : ToUpperChar(x.v[i + k]) = level[k]
       /\ \A k \in (i + Len(level) + 1)..Len(x.v) : IsWhiteSpace(x.v[k])

HoldsSomeLevel(x) == \E i \in 1..Len(LevelNames) : HoldsLevel(x, LevelNames[i])

FlagOf == [WARN |-> "warnEnabled", INFO |-> "infoEnabled", DEBUG |-> "debugEnabled",
           TRACE |-> "traceEnabled"]
MethodOf == [WARN |-> "warn", INFO |-> "info", DEBUG |-> "debug", TRACE |-> "trace"]
FlaggedLevels == <<WARN, INFO, DEBUG, TRACE>>
FlaggedNames == {"WARN", "INFO", "DEBUG", "TRACE"}
LevelCalled == [WARN |-> WARN, INFO |-> INFO, DEBUG |-> DEBUG, TRACE |-> TRACE]

\* the four enabled flags of tgt are those of the level
HasFlagsOf(tgt, level) ==
  \A n \in FlaggedNames :
    Get(tgt, FlagOf[n]) = Bool(Rank(LevelCalled[n]) <= Rank(level))

LevelMethods == {"error", "warn", "info", "debug", "trace"}
EnabledFlags == {"warnEnabled", "infoEnabled", "debugEnabled", "traceEnabled"}
LoggingProperties ==
  {"logLevel", "_underlyingLogger", "log"} \cup EnabledFlags \cup LevelMethods

\* the last operation was a configureLogging call on a target that was not
\* configured or with forceConfiguration true, and it returned
LastCallConfigured ==
  /\ last.op = "configureLogging"
  /\ Truthy(last.force) \/ ~last.wasConfigured
  /\ last.threw = "none"

\* the environment variable the last call consulted
ConsultedVariable == EnvLookup(env, Get(last.used, "envLogLevelName"))

-----------------------------------------------------------------------------
(* Claims *)

\* C1: an unforced configureLogging call on a target on which
\* isLoggingConfigured is true returns the same target with every property
\* unchanged, whatever the settings and options, and calls no logger method.
C1_UnforcedCallChangesNothing ==
  [][(/\ last'.op = "configureLogging"
      /\ ~Truthy(last'.force)
      /\ isLoggingConfigured(target))
     => (/\ target' = target
         /\ last'.returned = "target"
         /\ last'.calls = <<>>)]_vars

\* an unforced call naming logger AllOK and level TRACE was made on a target
\* configured with logger Override at level ERROR
C1_Witness ==
  /\ last.op = "configureLogging" /\ ~Truthy(last.force) /\ last.wasConfigured
  /\ installed
  /\ GetProp(last.settings, "underlyingLogger") = Ref("AllOK")
  /\ HoldsLevel(GetProp(last.settings, "logLevel"), TRACE)
  /\ Get(target, "_underlyingLogger") = Ref("Override")
  /\ Get(target, "logLevel") = LogLevel.ERROR

\* C2: after a call that performs configuration, when the environment variable
\* named by the resolved envLogLevelName spells a level E (any letter case,
\* surrounding white space), target.logLevel is the canonical E and the flags
\* are those of E, whatever level was requested.
C2_EnvironmentLevelWins ==
  LastCallConfigured =>
    \A i \in 1..Len(LevelNames) :
      HoldsLevel(ConsultedVariable, LevelNames[i]) =>
        /\ Get(target, "logLevel") = Str(LevelNames[i])
        /\ HasFlagsOf(target, LevelNames[i])

\* LOG_LEVEL holds a padded lower-case debug, TRACE was requested, DEBUG is installed
C2_Witness ==
  /\ LastCallConfigured
  /\ Get(last.used, "envLogLevelName") = Str(LOG_LEVEL)
  /\ ConsultedVariable = Str(Padded(<<"d","e","b","u","g">>, MaxPadding))
  /\ Get(last.used, "logLevel") = LogLevel.TRACE
  /\ Get(target, "logLevel") = LogLevel.DEBUG
  /\ Get(target, "traceEnabled") = Bool(FALSE)

\* a non-console object without a function log or without a function error
InvalidLoggerObject(x) ==
  x.t = "ref" /\ x # console /\ ~({"log", "error"} \subseteq Heap[x.v])

C4_NoMutationOnFailure ==
  [][(last'.op = "configureLogging" /\ last'.threw # "none") => target' = target]_vars

\* a forced call with an invalid logger threw on a configured target, which
\* keeps its level, flags, methods and logger
C4_Witness ==
  /\ last.op = "configureLogging" /\ last.threw = "Error"
  /\ Truthy(last.force) /\ last.wasConfigured /\ installed
  /\ InvalidLoggerObject(GetProp(last.settings, "underlyingLogger"))
  /\ Get(target, "_underlyingLogger") = Ref("Override")
  /\ Get(target, "logLevel") = LogLevel.ERROR
  /\ isLoggingConfigured(target)

\* C5: after any configuration, for each L of WARN, INFO, DEBUG, TRACE the flag
\* LEnabled is true iff rank(L) <= rank(target.logLevel).
C5_MonotonicEnablement ==
  installed =>
    /\ IsLevel(Get(target, "logLevel"))
    /\ HasFlagsOf(target, Get(target, "logLevel").v)
    /\ Get(target, "traceEnabled") = Bool(TRUE) => Get(target, "debugEnabled") = Bool(TRUE)
    /\ Get(target, "debugEnabled") = Bool(TRUE) => Get(target, "infoEnabled") = Bool(TRUE)
    /\ Get(target, "infoEnabled") = Bool(TRUE) => Get(target, "warnEnabled") = Bool(TRUE)

\* a target configured at INFO: warn and info enabled, debug and trace not
C5_Witness ==
  /\ installed /\ Get(target, "logLevel") = LogLevel.INFO
  /\ Get(target, "warnEnabled") = Bool(TRUE) /\ Get(target, "infoEnabled") = Bool(TRUE)
  /\ Get(target, "debugEnabled") = Bool(FALSE) /\ Get(target, "traceEnabled") = Bool(FALSE)

\* the logging properties a first call with the inputs of the last call installs
\* on a target without logging properties
FreshlyConfigured ==
  configureLogging(EmptyTarget, last.settings, last.options, last.force, env,
                   defaultOptions).target

\* C6: when the consulted environment variable holds no valid level, a forced
\* call on a configured target leaves exactly the logLevel, flags, methods and
\* underlying logger that the same call installs on a fresh target.
C6_ForcedOverride ==
  (/\ last.op = "configureLogging" /\ Truthy(last.force) /\ last.wasConfigured
   /\ last.threw = "none"
   /\ ~HoldsSomeLevel(ConsultedVariable))
  => \A p \in LoggingProperties :
       /\ p \in DOMAIN target
       /\ p \in DOMAIN FreshlyConfigured
       /\ target[p] = FreshlyConfigured[p]

\* a forced call requesting error on logger Override replaced an earlier
\* configuration: level ERROR, all four flags false
C6_Witness ==
  /\ last.op = "configureLogging" /\ Truthy(last.force) /\ last.wasConfigured
  /\ last.threw = "none" /\ ~HoldsSomeLevel(ConsultedVariable)
  /\ HoldsLevel(GetProp(last.settings, "logLevel"), ERROR)
  /\ Get(target, "logLevel") = LogLevel.ERROR
  /\ \A f \in EnabledFlags : Get(target, f) = Bool(FALSE)
  /\ Get(target, "_underlyingLogger") = Ref("Override")

InstalledTogether == {"logLevel", "log"} \cup EnabledFlags \cup LevelMethods

\* C7: starting from a target without logging properties, after any sequence of
\* calls the target carries none of logLevel, the flags, the level methods and
\* log, or all of them: a string, four booleans and six functions.
C7_AtomicConfiguration ==
  \/ \A p \in InstalledTogether : p \notin DOMAIN target
  \/ /\ \A p \in InstalledTogether : p \in DOMAIN target
     /\ Typeof(Get(target, "logLevel")) = "string"
     /\ \A p \in EnabledFlags : Typeof(Get(target, p)) = "boolean"
     /\ \A p \in LevelMethods \cup {"log"} : Typeof(Get(target, p)) = "function"

\* all properties are installed, at a level where log is suppressed, and the
\* last call threw
C7_Witness ==
  /\ installed /\ last.op = "configureLogging" /\ last.threw # "none"
  /\ \A p \in InstalledTogether : p \in DOMAIN target
  /\ Get(target, "infoEnabled") = Bool(FALSE)

\* C8: whenever the target is configured, target.logLevel is one of the five
\* canonical names, the flags are those of target.logLevel, warn, info, debug
\* and trace are no-ops exactly when their flag is false, and a level in the
\* environment variable is the one stored, not the requested one.
C8_StoredLevelIsInForce ==
  (installed /\ isLoggingConfigured(target)) =>
    /\ IsLevel(Get(target, "logLevel"))
    /\ HasFlagsOf(target, Get(target, "logLevel").v)
    /\ Get(target, "error") # noop
    /\ \A n \in FlaggedNames :
         (Get(target, MethodOf[n]) = noop) <=> (Get(target, FlagOf[n]) = Bool(FALSE))
    /\ (LastCallConfigured /\ HoldsSomeLevel(ConsultedVariable))
         => HoldsLevel(ConsultedVariable, Get(target, "logLevel").v)

\* DEBUG was requested with envLogLevelName logLevel, the variable logLevel
\* holds WARN: WARN is stored, info is a no-op and warn is not
C8_Witness ==
  /\ installed /\ LastCallConfigured
  /\ Get(last.used, "envLogLevelName") = Str(logLevelName)
  /\ Get(last.used, "logLevel") = LogLevel.DEBUG
  /\ ConsultedVariable = Str(WARN)
  /\ Get(target, "logLevel") = LogLevel.WARN
  /\ Get(target, "info") = noop /\ Get(target, "warn") # noop

\* the string has a character that is not white space
IsNameString(x) == x.t = "string" /\ \E k \in 1..Len(x.v) : ~IsWhiteSpace(x.v[k])

\* the name without the white space before and after it
StrippedName(s) ==
  LET first == CHOOSE i \in 1..Len(s) :
                 ~IsWhiteSpace(s[i]) /\ \A k \in 1..(i - 1) : IsWhiteSpace(s[k])
      final == CHOOSE j \in 1..Len(s) :
                 ~IsWhiteSpace(s[j]) /\ \A k \in (j + 1)..Len(s) : IsWhiteSpace(s[k])
  IN SubSeq(s, first, final)

SettingsFields == {"logLevel", "useLevelPrefixes", "envLogLevelName", "useConsoleTrace"}

\* the value x is validly typed for the field
ValidlyTyped(field, x) ==
  CASE field = "logLevel" -> HoldsSomeLevel(x)
    [] field = "envLogLevelName" -> IsNameString(x)
    [] OTHER -> x.t = "boolean"

\* the validly typed value x as the configuration uses it
AsUsed(field, x) ==
  CASE field = "logLevel" ->
         Str(LevelNames[CHOOSE i \in 1..Len(LevelNames) : HoldsLevel(x, LevelNames[i])])
    [] field = "envLogLevelName" -> Str(StrippedName(x.v))
    [] OTHER -> x

HardCoded == [logLevel |-> Str(INFO), useLevelPrefixes |-> Bool(TRUE),
              envLogLevelName |-> Str(LOG_LEVEL), useConsoleTrace |-> Bool(FALSE)]

\* settings first, then options, then the defaults payload, then the
\* hard-coded default
ByPrecedence(field) ==
  LET fromSettings == GetProp(last.settings, field)
      fromOptions == GetProp(last.options, field)
      fromPayload == Get(defaultOptions, field)
  IN IF ValidlyTyped(field, fromSettings) THEN AsUsed(field, fromSettings)
     ELSE IF ValidlyTyped(field, fromOptions) THEN AsUsed(field, fromOptions)
     ELSE IF ValidlyTyped(field, fromPayload) THEN AsUsed(field, fromPayload)
     ELSE HardCoded[field]

\* C9: for each of logLevel, useLevelPrefixes, envLogLevelName, useConsoleTrace
\* the value a configuration uses is the validly-typed value of settings, else
\* of options, else the default for the field, each field on its own; without a
\* level in the environment the level stored is that logLevel.
C9_FieldByFieldPrecedence ==
  LastCallConfigured =>
    /\ \A field \in SettingsFields : Get(last.used, field) = ByPrecedence(field)
    /\ ~HoldsSomeLevel(ConsultedVariable)
         => Get(target, "logLevel") = ByPrecedence("logLevel")
    /\ (Get(target, "error").v.kind = "logWithPrefix")
         <=> (ByPrecedence("useLevelPrefixes") = Bool(TRUE))

\* logLevel is taken from settings, useLevelPrefixes from options, and
\* envLogLevelName and useConsoleTrace from the hard-coded defaults
C9_Witness ==
  /\ LastCallConfigured /\ defaultOptions = EmptyObject
  /\ HoldsLevel(GetProp(last.settings, "logLevel"), TRACE)
  /\ GetProp(last.options, "logLevel") = Str(WARN)
  /\ GetProp(last.settings, "useLevelPrefixes") = Str(<<"t","r","u","e">>)
  /\ GetProp(last.options, "useLevelPrefixes") = Bool(FALSE)
  /\ GetProp(last.settings, "envLogLevelName") = Str(Spaces(MaxPadding))
  /\ GetProp(last.options, "envLogLevelName") = Undefined
  /\ GetProp(last.settings, "useConsoleTrace") = Null
  /\ GetProp(last.options, "useConsoleTrace") = Num(1)
  /\ last.used = [logLevel |-> LogLevel.TRACE, useLevelPrefixes |-> Bool(FALSE),
                  envLogLevelName |-> Str(LOG_LEVEL), useConsoleTrace |-> Bool(FALSE)]

\* C10: a call that performs configuration, with any values of logLevel,
\* useLevelPrefixes, envLogLevelName and useConsoleTrace in settings and options
\* and no invalid underlying logger, does not throw and leaves the target
\* configured, each malformed field replaced by the next source or the default.
C10_MalformedInputsAreNeverFatal ==
  (/\ last.op = "configureLogging"
   /\ Truthy(last.force) \/ ~last.wasConfigured
   /\ ~InvalidLoggerObject(GetProp(last.settings, "underlyingLogger"))
   /\ ~InvalidLoggerObject(GetProp(last.options, "underlyingLogger")))
  => /\ last.threw = "none"
     /\ isLoggingConfigured(target)
     /\ \A field \in SettingsFields : Get(last.used, field) = ByPrecedence(field)

-----------------------------------------------------------------------------
(* Claims about the use of a configured target *)

\* the flag that enables the method of a level
FlagOfMethod == [warn |-> "warnEnabled", info |-> "infoEnabled", debug |-> "debugEnabled",
                 trace |-> "traceEnabled"]

\* the last operation was target.error, warn, info, debug or trace
LevelMethodCalled == last.op = "call" /\ last.method \in LevelMethods

\* the method called last is error or its level is enabled on the target
CalledMethodEnabled ==
  last.method = "error" \/ Get(target, FlagOfMethod[last.method]) = Bool(TRUE)

\* C11: the method of a level whose enabled flag is false makes no call on the
\* underlying logger, whatever its arguments; the method of a level whose flag
\* is true makes exactly one call on the underlying logger, and target.error
\* always makes one call of the error method of the logger.
C11_SuppressionByLevel ==
  LevelMethodCalled =>
    IF CalledMethodEnabled
    THEN /\ Len(last.calls) = 1
         /\ Ref(last.calls[1].logger) = Get(target, "_underlyingLogger")
         /\ last.method = "error" => last.calls[1].fn = "error"
    ELSE last.calls = <<>>

\* target.debug with two arguments at level INFO has made no call
C11_Witness ==
  /\ LevelMethodCalled /\ last.method = "debug"
  /\ Get(target, "logLevel") = LogLevel.INFO
  /\ Len(last.args) = 2
  /\ last.calls = <<>>

\* the method of the logger-like object u that the chain of fallbacks gives to
\* the method of a level
WarnBacking(u) == IF "warn" \in Heap[u] THEN "warn" ELSE "error"
InfoBacking(u) == IF "info" \in Heap[u] THEN "info" ELSE "log"
DebugBacking(u) == IF "debug" \in Heap[u] THEN "debug" ELSE InfoBacking(u)
TraceBacking(u) == IF "trace" \in Heap[u] THEN "trace" ELSE DebugBacking(u)
BackingMethod(u, method) ==
  CASE method = "warn" -> WarnBacking(u)
    [] method = "info" -> InfoBacking(u)
    [] method = "debug" -> DebugBacking(u)
    [] method = "trace" -> TraceBacking(u)
    [] OTHER -> "error"

\* the last call gave a minimum viable logger other than console
GaveIncompleteLogger ==
  /\ last.op = "configureLogging"
  /\ GetProp(last.settings, "underlyingLogger") \in MinimumViableLoggers

PrefixesInUse == Get(target, "error").v.kind = "logWithPrefix"

\* args with the level L put before the first argument
WithLevelPrefix(L, args) ==
  IF args = <<>> THEN <<>>
  ELSE <<Str(L \o <<" ">> \o StringOf(args[1]))>> \o Tail(args)

\* what the claim lets the method of level L pass on when given args
PassedOnWithPrefixes(L, args) ==
  IF args # <<>> /\ args[1].t = "string" /\ StartsWith(args[1].v, L) THEN args
  ELSE WithLevelPrefix(L, args)

\* the last operation called an enabled method of a level, which made one call
EnabledLevelMethodCalled ==
  LevelMethodCalled /\ CalledMethodEnabled /\ Len(last.calls) = 1

\* the last call went to console.trace
ReachedConsoleTrace == last.calls[1].logger = "console" /\ last.calls[1].fn = "trace"

\* the method called last, given the arguments it passed on, passes on the same
PassesOnAgain ==
  InvokeMethod(target, last.method, last.calls[1].args)[1].args = last.calls[1].args

MethodNamed(x) ==
  CASE x = Str(ERROR) -> "error"
    [] x = Str(WARN) -> "warn"
    [] x = Str(INFO) -> "info"
    [] x = Str(DEBUG) -> "debug"
    [] x = Str(TRACE) -> "trace"
    [] OTHER -> "none"

\* the arguments the dispatcher was given last: those of target.log, or those
\* of log after the target; none when the last operation was neither
DispatchedArgs ==
  IF last.op = "call" /\ last.method = "log" THEN last.args
  ELSE IF last.op = "log" /\ last.args # <<>> /\ last.args[1] = Plain(target)
  THEN Tail(last.args)
  ELSE <<>>

\* the last operation was target.log(L, ...rest) or log(target, L, ...rest)
\* for one of the five levels L
DispatchedByLevel ==
  /\ installed
  /\ DispatchedArgs # <<>>
  /\ MethodNamed(DispatchedArgs[1]) # "none"

\* C14: target.log(L, ...rest) and log(target, L, ...rest), L one of the five
\* levels, make exactly the call on the underlying logger that the method of
\* L makes when given rest: the same method, the same arguments, or no call
\* when L is disabled; L itself is not passed on.
C14_DispatchByLevel ==
  DispatchedByLevel =>
    last.calls = InvokeMethod(target, MethodNamed(DispatchedArgs[1]), Tail(DispatchedArgs))

\* log(target, 'WARN', 'hello') has called the warn method of the logger with
\* one argument
C14_Witness ==
  /\ DispatchedByLevel /\ last.op = "log"
  /\ DispatchedArgs = <<Str(WARN), Str(Hello)>>
  /\ Len(last.calls) = 1
  /\ last.calls[1].fn = "warn" /\ Len(last.calls[1].args) = 1

\* s has the text name somewhere in it
HasText(s, name) ==
  \E i \in 1..Len(s) : i + Len(name) - 1 <= Len(s) /\ SubSeq(s, i, i + Len(name) - 1) = name

\* x is a string with ERROR, WARN, INFO, DEBUG, TRACE or LOG somewhere in it
ContainsLevelName(x) ==
  x.t = "string" /\ \E i \in 1..Len(LevelAlternatives) : HasText(x.v, LevelAlternatives[i])

\* the last operation was target.log or log(target, ...) with a first argument
\* that contains no level name, INFO being enabled
DispatchedWithoutLevel ==
  /\ installed
  /\ DispatchedArgs # <<>>
  /\ ~ContainsLevelName(DispatchedArgs[1])
  /\ Get(target, "infoEnabled") = Bool(TRUE)

\* the one call made last went to the log method of the underlying logger, or
\* to its info method if it has no log
ReachedLogMethod ==
  /\ Len(last.calls) = 1
  /\ Ref(last.calls[1].logger) = Get(target, "_underlyingLogger")
  /\ last.calls[1].fn = IF "log" \in Heap[last.calls[1].logger] THEN "log" ELSE "info"

ContainsNameOfLevel(x) == x.t = "string" /\ \E L \in Levels : HasText(x.v, L)

\* the last operation was target.log or log(target, ...) with a first argument
\* that carries none of the five level names
DispatchedByDefault ==
  installed /\ DispatchedArgs # <<>> /\ ~ContainsNameOfLevel(DispatchedArgs[1])

\* the first argument of the call made last, if it has one, starts with LOG
\* and not with INFO
TaggedLOG ==
  last.calls[1].args # <<>> =>
    /\ last.calls[1].args[1].t = "string"
    /\ StartsWith(last.calls[1].args[1].v, LOG \o <<" ">>)
    /\ ~StartsWith(last.calls[1].args[1].v, INFO)

\* C16: a call of target.log whose first argument carries no level name, or
\* the name LOG, reaches the underlying logger if and only if infoEnabled is
\* true, and is then tagged LOG, not INFO, when prefixes are in use; a call
\* that names one of the five levels is gated by the flag of that level only,
\* so that target.log('ERROR', x) reaches the error method when INFO is
\* disabled.
C16_DefaultPathGatedByInfo ==
  /\ DispatchedByDefault =>
       IF Get(target, "infoEnabled") = Bool(TRUE)
       THEN ReachedLogMethod /\ (PrefixesInUse => TaggedLOG)
       ELSE last.calls = <<>>
  /\ DispatchedByLevel =>
       IF MethodNamed(DispatchedArgs[1]) = "error"
       THEN Len(last.calls) = 1 /\ last.calls[1].fn = "error"
       ELSE Len(last.calls) =
              IF Get(target, FlagOfMethod[MethodNamed(DispatchedArgs[1])]) = Bool(TRUE)
              THEN 1 ELSE 0

\* target.log('ERROR', 'hello', 7) at level ERROR, where INFO is disabled,
\* has reached the error method
C16_Witness ==
  /\ DispatchedByLevel /\ last.op = "call"
  /\ DispatchedArgs = <<Str(ERROR), Str(Hello), Num(7)>>
  /\ Get(target, "infoEnabled") = Bool(FALSE)
  /\ Len(last.calls) = 1 /\ last.calls[1].fn = "error"

\* the last operation was isMinimumViableLogger(LoggerChecked)
LoggerWasChecked == last.op = "isMinimumViableLogger"
LoggerChecked == last.args[1]

\* x is an object whose log and error properties are both functions
HasLogAndError(x) == x.t = "ref" /\ {"log", "error"} \subseteq Heap[x.v]

\* the logger-like objects that differ from x in warn, info, debug and trace
\* at most
SameLogAndError(x) ==
  {Ref(id) : id \in {i \in DOMAIN Heap \ {"console"} :
                       Heap[i] \cap {"log", "error"} = Heap[x.v] \cap {"log", "error"}}}

SuppliesLogger(x) == Truthy(GetProp(x, "underlyingLogger"))

\* settings.underlyingLogger when supplied, otherwise options.underlyingLogger
\* when supplied, otherwise console
ChosenLogger(settings, options) ==
  IF SuppliesLogger(settings) THEN GetProp(settings, "underlyingLogger")
  ELSE IF SuppliesLogger(options) THEN GetProp(options, "underlyingLogger")
  ELSE console

\* the last operation was a call that found the target configured and was not
\* forced
LastCallUnforced ==
  last.op = "configureLogging" /\ last.wasConfigured /\ ~Truthy(last.force)

\* C18: after a configureLogging call that performs configuration,
\* target._underlyingLogger is the very object settings supplies as
\* underlyingLogger, otherwise the one options supplies, otherwise console; an
\* unforced call on a configured target leaves it as it was, whatever logger
\* the call names.
C18_ChoiceOfUnderlyingLogger ==
  [][/\ LastCallConfigured' =>
          Get(target', "_underlyingLogger") = ChosenLogger(last'.settings, last'.options)
     /\ LastCallUnforced' =>
          Get(target', "_underlyingLogger") = Get(target, "_underlyingLogger")]_vars

\* settings without a logger and options with one: the logger of options is
\* the one installed
C18_Witness ==
  /\ LastCallConfigured
  /\ ~SuppliesLogger(last.settings) /\ Truthy(last.settings)
  /\ GetProp(last.options, "underlyingLogger") = Ref("AllOK")
  /\ Get(target, "_underlyingLogger") = Ref("AllOK")

\* the last operation was the function log, given a logger
LogFunctionCalled == last.op = "log" /\ last.args # <<>>

\* the name calls are recorded under for the logger given to log
ReceiverGiven == IF last.args[1].t = "plain" THEN "target" ELSE last.args[1].v

\* the logger given to log has a function called name
GivenHas(name) ==
  \/ last.args[1].t = "ref" /\ name \in Heap[last.args[1].v]
  \/ last.args[1].t = "plain" /\ Typeof(Get(last.args[1].v, name)) = "function"

\* C19: log(logger, ...data) makes exactly one output call, whatever logger
\* is: logger.log(...data) when logger has a function log, otherwise
\* logger.info(...data) when it has a function info, otherwise
\* console.log(...data), as when logger is undefined or an object that is not
\* configured; logger is not passed on as data.
C19_FreeLogFunction ==
  /\ last.op = "log" => Len(last.direct) = 1
  /\ LogFunctionCalled =>
       last.direct[1] =
         IF GivenHas("log") THEN Call(ReceiverGiven, "log", Tail(last.args))
         ELSE IF GivenHas("info") THEN Call(ReceiverGiven, "info", Tail(last.args))
         ELSE Call("console", "log", Tail(last.args))

\* log on an object with an info function and no log function has called info
\* with the two data arguments
C19_Witness ==
  /\ LogFunctionCalled
  /\ last.args = <<Ref("NoLog"), Str(WARN), Str(Hello)>>
  /\ last.direct = <<Call("NoLog", "info", <<Str(WARN), Str(Hello)>>)>>

\* the target has just been configured under an environment variable that
\* holds a valid level
ConfiguredUnderEnvironment == LastCallConfigured /\ HoldsSomeLevel(ConsultedVariable)

\* C20 as stated: once the environment variable holds a valid level E and the
\* target has been configured under it, no later configureLogging call, forced
\* or not, with any settings and options, changes target.logLevel while the
\* environment is unchanged.
C20_EnvironmentOverrideStays ==
  [][(ConfiguredUnderEnvironment /\ last'.op = "configureLogging")
       => Get(target', "logLevel") = Get(target, "logLevel")]_vars

\* C20 amended: no later configureLogging call changes target.logLevel, as
\* long as the call, when it performs configuration, resolves envLogLevelName
\* to the same name.
C20_EnvironmentOverrideStaysUnderItsName ==
  [][(/\ ConfiguredUnderEnvironment
      /\ last'.op = "configureLogging"
      /\ LastCallConfigured' =>
           Get(last'.used, "envLogLevelName") = Get(last.used, "envLogLevelName"))
       => Get(target', "logLevel") = Get(target, "logLevel")]_vars

\* a forced call with level TRACE in its settings on a configured target, while
\* LOG_LEVEL holds debug: the level is DEBUG
C20_Witness ==
  /\ ConfiguredUnderEnvironment
  /\ last.wasConfigured /\ Truthy(last.force)
  /\ HoldsLevel(GetProp(last.settings, "logLevel"), TRACE)
  /\ Get(last.used, "envLogLevelName") = Str(LOG_LEVEL)
  /\ Get(target, "logLevel") = LogLevel.DEBUG

-----------------------------------------------------------------------------
(* Claims about what configuration leaves alone and what it reads *)

\* the properties of tgt that are not logging properties
OtherProperties(tgt) == DOMAIN tgt \ LoggingProperties

\* C21: every property of the target other than logLevel, _underlyingLogger,
\* the four enabled flags, the five level methods and log has the same value
\* after any configureLogging call (first, unforced repeat, forced or failed)
\* as before it, no other property appears, and a call that returns returns
\* the target.
C21_OnlyLoggingPropertiesChange ==
  [][last'.op = "configureLogging" =>
       /\ OtherProperties(target') = OtherProperties(target)
       /\ \A k \in OtherProperties(target) : target'[k] = target[k]
       /\ last'.threw = "none" => last'.returned = "target"]_vars

\* a forced call has configured a target again and its property abc is still 123
C21_Witness ==
  /\ LastCallConfigured /\ last.wasConfigured
  /\ last.returned = "target"
  /\ Get(target, "abc") = Num(123)
  /\ OtherProperties(target) = {"abc"}

\* the target has just been configured on console
ConfiguredOnConsole ==
  LastCallConfigured /\ Get(target, "_underlyingLogger") = console

\* what the claim lets trace on console do with args under the settings used
ConsoleTraceCall(used, args) ==
  IF Truthy(Get(used, "useConsoleTrace")) THEN Call("console", "trace", args)
  ELSE Call("console", "info",
            IF Truthy(Get(used, "useLevelPrefixes")) THEN PassedOnWithPrefixes(TRACE, args)
            ELSE args)

StartsWithLevel(s, L) ==
  StartsWith(s, L) /\ (Len(s) = Len(L) \/ ~IsLetter(s[Len(L) + 1]))

\* x is a string that is a level name, after white space if any, alone or
\* followed by text that does not start with a letter
LeadsWithLevel(x) ==
  x.t = "string" /\ \E L \in Levels : StartsWithLevel(TrimStart(x.v), L)

\* the level the string x leads with
LeadingLevel(x) == CHOOSE L \in Levels : StartsWithLevel(TrimStart(x.v), L)

\* what follows the level in the string x, trimmed
TrimmedRemainder(x) ==
  Trim(SubSeq(TrimStart(x.v), Len(LeadingLevel(x)) + 1, Len(TrimStart(x.v))))

\* the arguments the claim lets the method of the level receive
ArgsAfterLevel(args) ==
  IF TrimmedRemainder(args[1]) = <<>> THEN Tail(args)
  ELSE <<Str(TrimmedRemainder(args[1]))>> \o Tail(args)

\* the last operation was target.log or log(target, ...) with a first argument
\* that leads with a level
DispatchedWithLeadingLevel ==
  installed /\ DispatchedArgs # <<>> /\ LeadsWithLevel(DispatchedArgs[1])

\* C23: when the first argument of target.log is a level name L followed by
\* text that does not start with a letter, the method of L is given the
\* trimmed remainder of that argument as its first argument and the later
\* arguments unchanged; when it is the level name alone, in white space or
\* not, the method of L is given the later arguments only.
C23_LevelWithTrailingText ==
  DispatchedWithLeadingLevel =>
    last.calls = InvokeMethod(target, MethodNamed(Str(LeadingLevel(DispatchedArgs[1]))),
                              ArgsAfterLevel(DispatchedArgs))

\* the first argument has no line break in it
FirstArgumentOnOneLine ==
  \A i \in 1..Len(DispatchedArgs[1].v) : DispatchedArgs[1].v[i] # "\n"

\* what does hold: the same for a first argument of one line
LevelWithTrailingTextOnOneLine ==
  (DispatchedWithLeadingLevel /\ FirstArgumentOnOneLine) =>
    last.calls = InvokeMethod(target, MethodNamed(Str(LeadingLevel(DispatchedArgs[1]))),
                              ArgsAfterLevel(DispatchedArgs))

\* x is a string in which a level name comes after text that is not white
\* space, and which does not lead with a level
HasLevelAfterText(x) ==
  /\ x.t = "string"
  /\ ~LeadsWithLevel(x)
  /\ \E L \in Levels : \E q \in 2..Len(x.v) :
       /\ q + Len(L) - 1 <= Len(x.v)
       /\ SubSeq(x.v, q, q + Len(L) - 1) = L
       /\ \E k \in 1..(q - 1) : ~IsWhiteSpace(x.v[k])

\* the last operation was target.log or log(target, ...) with such a first
\* argument
DispatchedWithLevelAfterText ==
  installed /\ DispatchedArgs # <<>> /\ HasLevelAfterText(DispatchedArgs[1])

\* C24: a first argument of target.log in which a level name is preceded by
\* other text that is not white space is not taken to name a level: all the
\* arguments go to the log function of the default path, the first argument
\* whole.
C24_OnlyLeadingLevelIsLevel ==
  DispatchedWithLevelAfterText =>
    last.calls = Invoke(Get(target, "log").v.log, DispatchedArgs)

\* the environment variable the last call consulted is unset or holds text
\* that is not a level
EnvironmentValueUnusable ==
  \/ ConsultedVariable = Undefined
  \/ ConsultedVariable.t = "string" /\ ~HoldsSomeLevel(ConsultedVariable)

\* C25: when the environment variable named by the resolved envLogLevelName is
\* unset or holds a string that is not one of the five levels, such as the
\* text undefined, a configuring call stores in target.logLevel the level
\* merged from settings, options and defaults, and the flags are those of it.
C25_UnusableEnvironmentValueIgnored ==
  (LastCallConfigured /\ EnvironmentValueUnusable) =>
    /\ Get(target, "logLevel") = Get(last.used, "logLevel")
    /\ Get(last.used, "logLevel") = ByPrecedence("logLevel")
    /\ HasFlagsOf(target, ByPrecedence("logLevel").v)

\* LOG_LEVEL holds the text undefined and TRACE was requested: TRACE is stored
C25_Witness ==
  /\ LastCallConfigured
  /\ Get(last.used, "envLogLevelName") = Str(LOG_LEVEL)
  /\ ConsultedVariable = Str(<<"u","n","d","e","f","i","n","e","d">>)
  /\ HoldsLevel(GetProp(last.settings, "logLevel"), TRACE)
  /\ Get(target, "logLevel") = LogLevel.TRACE

\* the last operation was a configureLogging call on a target that was not
\* configured or with forceConfiguration true
LastCallWasToConfigure ==
  last.op = "configureLogging" /\ (Truthy(last.force) \/ ~last.wasConfigured)

\* the logger the last call would select: that of settings if it has one, else
\* that of options
LoggerDemanded ==
  IF SuppliesLogger(last.settings) THEN GetProp(last.settings, "underlyingLogger")
  ELSE GetProp(last.options, "underlyingLogger")

\* x is console or an object with functions log and error
ValidLoggerObject(x) == x = console \/ HasLogAndError(x)

\* C26: configureLogging throws for an invalid underlying logger only when
\* that logger is the one it would select, settings.underlyingLogger if
\* truthy, else options.underlyingLogger; when settings has a valid logger and
\* options an invalid one, the call does not throw, the invalid logger is
\* discarded with a warning and the target is configured on the logger of
\* settings.
C26_OnlyDemandedLoggerIsFatal ==
  LastCallWasToConfigure =>
    /\ last.threw = "Error" <=> InvalidLoggerObject(LoggerDemanded)
    /\ (/\ ValidLoggerObject(GetProp(last.settings, "underlyingLogger"))
        /\ InvalidLoggerObject(GetProp(last.options, "underlyingLogger")))
       => /\ last.threw = "none"
          /\ isLoggingConfigured(target)
          /\ Get(target, "_underlyingLogger") = GetProp(last.settings, "underlyingLogger")
          /\ \E i \in 1..Len(last.calls) : last.calls[i] = SkippingLoggerWarning

\* settings with the logger that has only log and error, options with the
\* logger without error: the target is configured on the former
C26_Witness ==
  /\ LastCallWasToConfigure /\ last.threw = "none"
  /\ GetProp(last.settings, "underlyingLogger") = Ref("MinViable")
  /\ GetProp(last.options, "underlyingLogger") = Ref("NoError")
  /\ Get(target, "_underlyingLogger") = Ref("MinViable")

\* the confirmation as the debug method of the target hands it on under the
\* settings used
ConfirmationArgs(used) ==
  IF Truthy(Get(used, "useLevelPrefixes"))
  THEN WithLevelPrefix(DEBUG, <<ConfiguredMessage(Get(target, "logLevel"),
                                  Get(used, "useLevelPrefixes"),
                                  Get(used, "envLogLevelName"),
                                  Get(used, "useConsoleTrace"))>>)
  ELSE <<ConfiguredMessage(Get(target, "logLevel"), Get(used, "useLevelPrefixes"),
                           Get(used, "envLogLevelName"), Get(used, "useConsoleTrace"))>>

\* the method of the logger u that backs debug
DebugMethodOf(u) == IF u = "console" THEN "info" ELSE DebugBacking(u)

\* the call is a warning or the report of an error, made on console
IsDiagnostic(call) == call.logger = "console" /\ call.fn \in {"warn", "error"}

\* the calls of the last operation that are not diagnostics
LoggedCalls == {i \in 1..Len(last.calls) : ~IsDiagnostic(last.calls[i])}

\* C27: a configureLogging call that performs configuration logs one
\* confirmation through the debug method of the target as configured; it
\* reaches the underlying logger exactly once, as the last call, when the
\* level is DEBUG or TRACE and not at all when it is ERROR, WARN or INFO; a
\* call that changes nothing or that throws logs none.
C27_ConfirmationLine ==
  last.op = "configureLogging" =>
    IF LastCallConfigured /\ Get(target, "debugEnabled") = Bool(TRUE)
    THEN /\ LoggedCalls = {Len(last.calls)}
         /\ Get(target, "logLevel") \in {LogLevel.DEBUG, LogLevel.TRACE}
         /\ last.calls[Len(last.calls)] =
              Call(Get(target, "_underlyingLogger").v,
                   DebugMethodOf(Get(target, "_underlyingLogger").v),
                   ConfirmationArgs(last.used))
    ELSE /\ LoggedCalls = {}
         /\ LastCallConfigured =>
              Get(target, "logLevel") \in {LogLevel.ERROR, LogLevel.WARN, LogLevel.INFO}

\* configured at DEBUG on the logger that has only log and error: the
\* confirmation has reached its log method
C27_Witness ==
  /\ LastCallConfigured
  /\ Get(target, "logLevel") = LogLevel.DEBUG
  /\ Get(target, "_underlyingLogger") = Ref("MinViable")
  /\ LoggedCalls = {Len(last.calls)}
  /\ last.calls[Len(last.calls)].fn = "log"

\* the level, the flags and which methods are no-ops
LevelAndFlags(tgt) ==
  [logLevel |-> Get(tgt, "logLevel"),
   flags |-> [f \in EnabledFlags |-> Get(tgt, f)],
   noops |-> {m \in LevelMethods : Get(tgt, m) = noop}]

\* C28: the environment is read only while configuring: a change of the
\* environment never alters the target; the level, the flags and which methods
\* are no-ops change only in a configureLogging call made with
\* forceConfiguration true or on a target that is not configured; and a method
\* of a level does what the flag on the target says, whatever the environment
\* holds by then.
C28_EnvironmentReadOnlyWhileConfiguring ==
  [][/\ last'.op \in {"setEnv", "deleteEnv", "call"} => target' = target
     /\ LevelAndFlags(target') # LevelAndFlags(target) =>
          /\ last'.op = "configureLogging"
          /\ Truthy(last'.force) \/ ~isLoggingConfigured(target)
     /\ (last'.op = "call" /\ last'.method \in LevelMethods \ {"error"}) =>
          (last'.calls # <<>> <=> Get(target, FlagOfMethod[last'.method]) = Bool(TRUE))]_vars

\* the target was configured at INFO, LOG_LEVEL holds debug by now, and
\* target.debug has made no call
C28_Witness ==
  /\ LevelMethodCalled /\ last.method = "debug" /\ last.args # <<>>
  /\ Get(target, "logLevel") = LogLevel.INFO
  /\ HoldsLevel(env[LOG_LEVEL], DEBUG)
  /\ last.calls = <<>>

\* the logging properties of tgt
LoggingPropertiesOf(tgt) == [k \in LoggingProperties |-> Get(tgt, k)]

CurrentLogger(tgt) == Get(tgt, "_underlyingLogger").v

\* the loggers reached by the call of a method of a target
LoggersReached(tgt, name, args) ==
  LET calls == InvokeMethod(tgt, name, args)
  IN  {calls[i].logger : i \in DOMAIN calls}

\* the loggers a target can reach through its current methods: the method of
\* each level and log, with and without a level
ReachableLoggers(tgt) ==
  UNION ({UNION {LoggersReached(tgt, name, args) : args \in LevelMethodArgs(name)} :
            name \in LevelMethodNames}
         \cup {LoggersReached(tgt, "log", args) : args \in LogMethodArgs})

\* a configuring call gave an already configured target a different logger
LoggerReplaced ==
  /\ installed /\ last.wasConfigured' /\ LastCallConfigured'
  /\ Typeof(Get(target, "_underlyingLogger")) = "object"
  /\ Get(target', "_underlyingLogger") # Get(target, "_underlyingLogger")

\* C30: after a reconfiguration of a target onto a different logger, every
\* call made through the target's current methods (the method of each level,
\* log with a level and log without one) reaches only the new logger, never
\* the one it was configured on before
C30_NoRoutingToReplacedLogger ==
  [][/\ LoggerReplaced =>
          /\ ReachableLoggers(target') = {CurrentLogger(target')}
          /\ CurrentLogger(target) \notin {CurrentLogger(target')}
     /\ last'.op = "call" =>
          \A i \in DOMAIN last'.calls : last'.calls[i].logger = CurrentLogger(target)]_vars

\* a target first configured on console and reconfigured onto another logger
\* was called through log without a level, and the call reached that logger
C30_Witness ==
  /\ installed /\ last.op = "call" /\ last.method = "log"
  /\ last.args = <<Str(Hello), Num(7)>>
  /\ CurrentLogger(target) = "AllOK"
  /\ last.calls # <<>>
  /\ \A i \in DOMAIN last.calls : last.calls[i].logger = "AllOK"

====
